---- MODULE Spec2Model ----
(***************************************************************************)
(* Model of the scoring harness: score.py (main, score, score_task1) and   *)
(* utils.py (extract_gt_file).                                             *)
(*                                                                         *)
(* One run of main is a sequence of steps over the results JSON file, the  *)
(* groundtruth folder, the task name and the two CSV files.  The position  *)
(* of the run is pc; an exception that main does not catch ends the run   *)
(* in pc = "crashed" with exc naming the exception.                        *)
(*                                                                         *)
(* Strings of the program are TLA+ strings.  The backquote that main puts  *)
(* around the task name in its error message is written as an apostrophe   *)
(* here (same length).  Numbers of a results document (metric values) are  *)
(* exact fractions <<numerator, denominator>>, NaN is <<0, 0>>.            *)
(***************************************************************************)
EXTENDS Integers, Sequences, FiniteSets, TLC

VARIABLES
    outFile,      \* the results file on disk: [kind, doc]
    inFile,       \* the results file as the run found it (history)
    gtFolder,     \* names of the entries of the groundtruth folder
    task,         \* the --task argument
    pc,           \* position of main
    res,          \* main's res: [isDict, doc]
    readDoc,      \* the document main started from: res after loading
    status,       \* main's status
    errors,       \* main's errors
    scores,       \* main's scores
    gt_file,      \* main's gt_file ("" while unset)
    calls,        \* sequence of the calls main has made
    returned,     \* how the call of score() ended ("none" before it)
    exc,          \* exception that ended the run ("" if none)
    stdout,       \* what main printed ("" if nothing)
    truth,        \* score_task1: groundtruth table
    pred,         \* score_task1: predictions table
    merged,       \* score_task1: joined table
    metrics,      \* score_task1: outcome of the metric computation
    jpc           \* position of score_task1 when run on its own

vars == <<outFile, inFile, gtFolder, task, pc, res, readDoc, status, errors,
          scores, gt_file, calls, returned, exc, stdout, truth, pred, merged,
          metrics, jpc>>

mainVars == <<outFile, inFile, gtFolder, task, pc, res, readDoc, status,
              errors, scores, gt_file, calls, returned, exc, stdout>>

joinVars == <<truth, pred, merged, metrics, jpc>>

----------------------------------------------------------------------------
(* Bounds of the model *)

MaxRows == 2          \* rows of a CSV table
LongTaskLen == 464    \* length of the long task name

----------------------------------------------------------------------------
(* Strings *)

RECURSIVE Repeat(_, _)
Repeat(s, n) ==
    IF n = 0 THEN ""
    ELSE LET h == Repeat(s, n \div 2)
         IN  IF n % 2 = 0 THEN h \o h ELSE h \o h \o s

EndsWith(s, suffix) ==
    /\ Len(s) >= Len(suffix)
    /\ SubSeq(s, Len(s) - Len(suffix) + 1, Len(s)) = suffix

\* os.path.join(folder, name)
path_join(folder, name) == folder \o "/" \o name

\* os.path.basename(p): what follows the last "/"
RECURSIVE basename(_)
basename(p) ==
    IF p = "" THEN ""
    ELSE LET last == SubSeq(p, Len(p), Len(p))
         IN  IF last = "/" THEN ""
             ELSE basename(SubSeq(p, 1, Len(p) - 1)) \o last

----------------------------------------------------------------------------
(* utils.py *)

MANIFEST == "SYNAPSE_METADATA_MANIFEST.tsv"

\* glob(os.path.join(folder, "*")): the pattern "*" does not match a name
\* that starts with a dot.
glob_star(folder, entries) ==
    { path_join(folder, n) : n \in { e \in entries : Head(e) # "." } }

\* files = [f for f in files if os.path.basename(f) != MANIFEST]
filter_manifest(files) == { f \in files : basename(f) # MANIFEST }

\* Variant of extract_gt_file that forgets to filter out the manifest.
extract_gt_file_keep_manifest(folder, entries) ==
    LET files == glob_star(folder, entries)
    IN  IF Cardinality(files) # 1
        THEN [kind |-> "ValueError", value |-> "Expected exactly one file."]
        ELSE [kind |-> "ok", value |-> CHOOSE f \in files : TRUE]

\* extract_gt_file(folder): the path, or ValueError
extract_gt_file(folder, entries) ==
    LET files == filter_manifest(glob_star(folder, entries))
    IN  IF Cardinality(files) # 1
        THEN [kind |-> "ValueError",
              value |-> "Expected exactly one groundtruth file in folder. "
                        \o "Got " \o ToString(Cardinality(files))
                        \o ". Exiting."]
        ELSE [kind |-> "ok", value |-> CHOOSE f \in files : TRUE]

----------------------------------------------------------------------------
(* Exact fractions for the metric values *)

NaN == <<0, 0>>

RECURSIVE GCD(_, _)
GCD(a, b) == IF b = 0 THEN a ELSE GCD(b, a % b)

Abs(n) == IF n < 0 THEN -n ELSE n

Frac(n, d) == LET g == GCD(Abs(n), Abs(d)) IN <<n \div g, d \div g>>

RAdd(a, b) == Frac(a[1] * b[2] + b[1] * a[2], a[2] * b[2])
RSub(a, b) == Frac(a[1] * b[2] - b[1] * a[2], a[2] * b[2])
RMul(a, b) == Frac(a[1] * b[1], a[2] * b[2])

----------------------------------------------------------------------------
(* score.py: score_task1 *)

\* The missing value (NaN) of the probability column.  Probabilities are
\* integers (tenths); only their order and equality matter to the metrics.
MISSING == -1

\* merged = truth.merge(pred, how="left", on="id"): the rows of truth in
\* order, each paired with every row of pred that has its id, in the order
\* of pred, or with a missing probability when pred has no such row.
RowsFor(t, p) ==
    LET m == SelectSeq(p, LAMBDA r : r.id = t.id)
    IN  IF m = <<>>
        THEN << [id |-> t.id, disease |-> t.disease, probability |-> MISSING] >>
        ELSE [i \in 1..Len(m) |->
                [id |-> t.id, disease |-> t.disease,
                 probability |-> m[i].probability]]

\* Variant of the join that keeps only the ids found on both sides
\* (how="inner").
RECURSIVE InnerMerge(_, _)
InnerMerge(t, p) ==
    IF t = <<>> THEN <<>>
    ELSE LET m == SelectSeq(p, LAMBDA r : r.id = Head(t).id)
         IN  [i \in 1..Len(m) |->
                [id |-> Head(t).id, disease |-> Head(t).disease,
                 probability |-> m[i].probability]]
             \o InnerMerge(Tail(t), p)

RECURSIVE LeftMerge(_, _)
LeftMerge(t, p) ==
    IF t = <<>> THEN <<>>
    ELSE RowsFor(Head(t), p) \o LeftMerge(Tail(t), p)

Positives(m) == { i \in 1..Len(m) : m[i].disease = 1 }
Negatives(m) == { i \in 1..Len(m) : m[i].disease # 1 }

\* roc_auc_score(y, s) for two classes: the area under the ROC curve, which
\* is the share of (positive, negative) pairs ranked correctly, ties half.
roc_auc_score(m) ==
    LET P == Positives(m)
        N == Negatives(m)
        gt == Cardinality({ x \in P \X N :
                            m[x[1]].probability > m[x[2]].probability })
        eq == Cardinality({ x \in P \X N :
                            m[x[1]].probability = m[x[2]].probability })
    IN  Frac(2 * gt + eq, 2 * Cardinality(P) * Cardinality(N))

\* One point of precision_recall_curve: predictions >= threshold th.
PRPoint(m, th) ==
    LET tp == Cardinality({ i \in Positives(m) : m[i].probability >= th })
        fp == Cardinality({ i \in Negatives(m) : m[i].probability >= th })
        np == Cardinality(Positives(m))
    IN  [precision |-> Frac(tp, tp + fp),
         recall |-> IF np = 0 THEN <<1, 1>> ELSE Frac(tp, np)]

\* auc(recall, precision): trapezoids between consecutive points of the
\* curve, walked from the end point (recall 0, precision 1) through the
\* thresholds in decreasing order.
RECURSIVE Trapezoids(_, _, _)
Trapezoids(m, ths, prev) ==
    IF ths = {} THEN <<0, 1>>
    ELSE LET th == CHOOSE x \in ths : \A y \in ths : y <= x
             pt == PRPoint(m, th)
             area == RMul(RMul(RSub(pt.recall, prev.recall),
                               RAdd(pt.precision, prev.precision)),
                          <<1, 2>>)
         IN  RAdd(area, Trapezoids(m, ths \ {th}, pt))

auprc(m) ==
    Trapezoids(m, { m[i].probability : i \in 1..Len(m) },
               [precision |-> <<1, 1>>, recall |-> <<0, 1>>])

\* The metric computation on the joined table.  sklearn rejects an empty
\* table and a table with a missing probability with ValueError.  With a
\* single class in the labels roc_auc_score raises ValueError or, in later
\* releases, warns and returns NaN: raisesOnOneClass is the release in use.
compute_metrics(m, raisesOnOneClass) ==
    IF \/ m = <<>>
       \/ \E i \in 1..Len(m) : m[i].probability = MISSING
    THEN [kind |-> "ValueError", value |-> <<>>]
    ELSE IF Positives(m) = {} \/ Negatives(m) = {}
    THEN IF raisesOnOneClass
         THEN [kind |-> "ValueError", value |-> <<>>]
         ELSE [kind |-> "ok",
               value |-> ("auc_roc" :> NaN) @@ ("auprc" :> auprc(m))]
    ELSE [kind |-> "ok",
          value |-> ("auc_roc" :> roc_auc_score(m)) @@ ("auprc" :> auprc(m))]

\* score_task1(gt_file, pred_file) on the contents of the two files.  A
\* file is a table, or malformed (pandas raises a ValueError: empty file,
\* parse error, missing column, value of the wrong type), or unreadable
\* (open raises an OSError: no such file, a directory, no permission).
\* The predictions file is read first.
score_task1(gt, pr, raisesOnOneClass) ==
    IF pr.kind = "unreadable" THEN [kind |-> "OSError", value |-> <<>>]
    ELSE IF pr.kind = "malformed" THEN [kind |-> "ValueError", value |-> <<>>]
    ELSE IF gt.kind = "unreadable" THEN [kind |-> "OSError", value |-> <<>>]
    ELSE IF gt.kind = "malformed" THEN [kind |-> "ValueError", value |-> <<>>]
    ELSE compute_metrics(LeftMerge(gt.rows, pr.rows), raisesOnOneClass)

----------------------------------------------------------------------------
(* The inputs of a run *)

EmptyDoc == <<>>

TruthIds == {"A_01", "A_02"}
PredIds == {"A_01", "A_02", "B_09"}
Labels == {0, 1}
Probabilities == {2, 7, MISSING}

TruthRows == [id : TruthIds, disease : Labels]
PredRows == [id : PredIds, probability : Probabilities]

TruthTables == UNION { [1..n -> TruthRows] : n \in 0..MaxRows }
PredTables == UNION { [1..n -> PredRows] : n \in 0..MaxRows }

NoRows == <<>>

GtContents ==
    { [kind |-> "table", rows |-> t] : t \in TruthTables }
    \cup { [kind |-> k, rows |-> NoRows] : k \in {"malformed", "unreadable"} }

PredContents ==
    { [kind |-> "table", rows |-> t] : t \in PredTables }
    \cup { [kind |-> k, rows |-> NoRows] : k \in {"malformed", "unreadable"} }

\* What score_task1 can give over the files within the bounds.
Task1Results ==
    { score_task1(g, p, v) : g \in GtContents, p \in PredContents,
                             v \in BOOLEAN }

\* Names an entry of the groundtruth folder can have.
EntryNames == {"truth.csv", "extra.csv", MANIFEST, ".DS_Store"}

GT_FOLDER == "groundtruth"

TaskNames == {"task1", "task2", Repeat("x", LongTaskLen)}

\* Results documents the validation step (and an earlier scoring run) can
\* have left in the output file.
ValidationParts ==
    { EmptyDoc,
      ("validation_status" :> "VALIDATED") @@ ("validation_errors" :> ""),
      ("validation_status" :> "INVALID")
          @@ ("validation_errors" :> "Missing column: probability"),
      ("validation_status" :> "") @@ ("validation_errors" :> ""),
      ("validation_status" :> "PENDING") @@ ("validation_errors" :> "") }

StaleParts ==
    { EmptyDoc,
      ("score_status" :> "SCORED") @@ ("score_errors" :> "")
          @@ ("auc_roc" :> <<1, 3>>) @@ ("auprc" :> <<2, 3>>),
      ("score_status" :> "INVALID") @@ ("score_errors" :> "stale") }

ExtraParts == { EmptyDoc, "submission_id" :> "9700001" }

ResultDocs ==
    { v @@ s @@ e : v \in ValidationParts, s \in StaleParts, e \in ExtraParts }

\* The output file before the run: no file, bytes that are not UTF-8, text
\* that is not JSON, JSON that is not an object, or a JSON object.
OutFiles ==
    { [kind |-> k, doc |-> EmptyDoc] :
        k \in {"missing", "undecodable", "badjson", "nonobject"} }
    \cup { [kind |-> "object", doc |-> d] : d \in ResultDocs }

----------------------------------------------------------------------------
(* score.py: score and main *)

\* score(challenge_task, gt_file, pred_file): the task's scoring function
\* is looked up and called, LookupError when there is none.  task1Result is
\* what score_task1 gives on the two files.
score(challenge_task, task1Result) ==
    IF challenge_task = "task1"
    THEN task1Result
    ELSE [kind |-> "LookupError", value |-> <<>>]

NOT_FOUND_NOTICE ==
    "Validation results not found. Proceeding with scoring but it "
    \o "may fail or results may be inaccurate."

\* res of the except branch of main
DefaultRes ==
    ("validation_status" :> "") @@ ("validation_errors" :> NOT_FOUND_NOTICE)

SKIPPED_MSG == "Submission could not be evaluated due to validation errors."
SCORING_ERROR_MSG ==
    "Error encountered during scoring; submission not evaluated."

invalid_task_msg(t) == "Invalid challenge task specified: '" \o t \o "'"

\* Variant of the gate that lets only a validated submission through.
validation_failed_strict(doc) ==
    /\ "validation_status" \in DOMAIN doc
    /\ doc["validation_status"] # "VALIDATED"

\* Variant of the gate that compares with the wrong spelling of the status.
validation_failed_case(doc) ==
    /\ "validation_status" \in DOMAIN doc
    /\ doc["validation_status"] = "invalid"

\* res.get("validation_status") == "INVALID"
validation_failed(doc) ==
    /\ "validation_status" \in DOMAIN doc
    /\ doc["validation_status"] = "INVALID"

\* Variant of the try block that sets status before score() is called, so
\* that a caught exception leaves "SCORED" behind.
after_score_early(o, t, oldStatus, oldScores) ==
    IF o.kind = "ok"
    THEN [status |-> "SCORED", errors |-> "", scores |-> o.value,
          raised |-> ""]
    ELSE IF o.kind = "ValueError"
    THEN [status |-> "SCORED", errors |-> SCORING_ERROR_MSG,
          scores |-> oldScores, raised |-> ""]
    ELSE IF o.kind = "LookupError"
    THEN [status |-> "SCORED", errors |-> invalid_task_msg(t),
          scores |-> oldScores, raised |-> ""]
    ELSE [status |-> "SCORED", errors |-> "", scores |-> oldScores,
          raised |-> o.kind]

\* The try block around score() in main: what status, errors and scores
\* are afterwards, and the exception main lets through ("" if none).
after_score(o, t, oldStatus, oldScores) ==
    IF o.kind = "ok"
    THEN [status |-> "SCORED", errors |-> "", scores |-> o.value,
          raised |-> ""]
    ELSE IF o.kind = "ValueError"
    THEN [status |-> oldStatus, errors |-> SCORING_ERROR_MSG,
          scores |-> oldScores, raised |-> ""]
    ELSE IF o.kind = "LookupError"
    THEN [status |-> oldStatus, errors |-> invalid_task_msg(t),
          scores |-> oldScores, raised |-> ""]
    ELSE [status |-> oldStatus, errors |-> "", scores |-> oldScores,
          raised |-> o.kind]

\* Variant of the update that replaces the document instead of merging.
dict_replace(d, u) == u

\* d | u  (dict union, the right operand wins)
dict_update(d, u) == u @@ d

\* {"score_status": status, "score_errors": errors, **scores}
score_fields(st, er, sc) ==
    sc @@ (("score_status" :> st) @@ ("score_errors" :> er))

Init ==
    /\ outFile \in OutFiles
    /\ inFile = outFile
    /\ gtFolder \in SUBSET EntryNames
    /\ task \in TaskNames
    /\ pc = "start"
    /\ res = [isDict |-> TRUE, doc |-> EmptyDoc]
    /\ readDoc = EmptyDoc
    /\ status = ""
    /\ errors = ""
    /\ scores = EmptyDoc
    /\ gt_file = ""
    /\ calls = <<>>
    /\ returned = "none"
    /\ exc = ""
    /\ stdout = ""
    /\ truth = <<>>
    /\ pred = <<>>
    /\ merged = <<>>
    /\ metrics = [kind |-> "none", value |-> <<>>]
    /\ jpc = "idle"

\* scores = {}; status = "INVALID"; try: json.load(...) except ...
LoadResults ==
    /\ pc = "start"
    /\ scores' = EmptyDoc
    /\ status' = "INVALID"
    /\ IF outFile.kind = "undecodable"
       THEN /\ pc' = "crashed"
            /\ exc' = "UnicodeDecodeError"
            /\ UNCHANGED <<res, readDoc>>
       ELSE /\ pc' = "gate"
            /\ exc' = ""
            /\ res' = IF outFile.kind = "object"
                      THEN [isDict |-> TRUE, doc |-> outFile.doc]
                      ELSE IF outFile.kind = "nonobject"
                      THEN [isDict |-> FALSE, doc |-> EmptyDoc]
                      ELSE [isDict |-> TRUE, doc |-> DefaultRes]
            /\ readDoc' = res'.doc
    /\ UNCHANGED <<outFile, inFile, gtFolder, task, errors, gt_file, calls,
                   returned, stdout>>
    /\ UNCHANGED joinVars

\* res.get(...) on a JSON value that is not an object
GateCrash ==
    /\ pc = "gate"
    /\ ~res.isDict
    /\ pc' = "crashed"
    /\ exc' = "AttributeError"
    /\ UNCHANGED <<outFile, inFile, gtFolder, task, res, readDoc, status,
                   errors, scores, gt_file, calls, returned, stdout>>
    /\ UNCHANGED joinVars

\* if res.get("validation_status") == "INVALID": errors = ...
SkipScoring ==
    /\ pc = "gate"
    /\ res.isDict
    /\ validation_failed(res.doc)
    /\ errors' = SKIPPED_MSG
    /\ pc' = "write"
    /\ UNCHANGED <<outFile, inFile, gtFolder, task, res, readDoc, status,
                   scores, gt_file, calls, returned, exc, stdout>>
    /\ UNCHANGED joinVars

\* else: gt_file = extract_gt_file(groundtruth_folder)   (outside the try)
ExtractGt ==
    /\ pc = "gate"
    /\ res.isDict
    /\ ~validation_failed(res.doc)
    /\ calls' = Append(calls, "extract_gt_file")
    /\ LET r == extract_gt_file(GT_FOLDER, gtFolder)
       IN  IF r.kind = "ok"
           THEN /\ gt_file' = r.value
                /\ pc' = "score"
                /\ exc' = ""
           ELSE /\ gt_file' = gt_file
                /\ pc' = "crashed"
                /\ exc' = r.kind
    /\ UNCHANGED <<outFile, inFile, gtFolder, task, res, readDoc, status,
                   errors, scores, returned, stdout>>
    /\ UNCHANGED joinVars

\* try: scores = score(...); status = "SCORED"; errors = "" except ...
Score ==
    /\ pc = "score"
    /\ calls' = Append(calls, "score")
    /\ \E r \in Task1Results :
         LET a == after_score(score(task, r), task, status, scores)
         IN  /\ returned' = score(task, r).kind
             /\ status' = a.status
             /\ errors' = a.errors
             /\ scores' = a.scores
             /\ exc' = a.raised
             /\ pc' = IF a.raised = "" THEN "write" ELSE "crashed"
    /\ UNCHANGED <<outFile, inFile, gtFolder, task, res, readDoc, gt_file,
                   stdout>>
    /\ UNCHANGED joinVars

\* res |= {...}; out.write(json.dumps(res))
WriteResults ==
    /\ pc = "write"
    /\ res' = [res EXCEPT
                 !.doc = dict_update(@, score_fields(status, errors, scores))]
    /\ outFile' = [kind |-> "object", doc |-> res'.doc]
    /\ pc' = "print"
    /\ UNCHANGED <<inFile, gtFolder, task, readDoc, status, errors, scores,
                   gt_file, calls, returned, exc, stdout>>
    /\ UNCHANGED joinVars

\* print(status)
PrintStatus ==
    /\ pc = "print"
    /\ stdout' = status
    /\ pc' = "done"
    /\ UNCHANGED <<outFile, inFile, gtFolder, task, res, readDoc, status,
                   errors, scores, gt_file, calls, returned, exc>>
    /\ UNCHANGED joinVars

Next ==
    \/ LoadResults
    \/ GateCrash
    \/ SkipScoring
    \/ ExtractGt
    \/ Score
    \/ WriteResults
    \/ PrintStatus

Spec == Init /\ [][Next]_vars

----------------------------------------------------------------------------
(* score_task1 on its own, over every pair of tables within the bounds *)

InitJoin ==
    /\ outFile = [kind |-> "missing", doc |-> EmptyDoc]
    /\ inFile = outFile
    /\ gtFolder = {}
    /\ task = "task1"
    /\ pc = "idle"
    /\ res = [isDict |-> TRUE, doc |-> EmptyDoc]
    /\ readDoc = EmptyDoc
    /\ status = ""
    /\ errors = ""
    /\ scores = EmptyDoc
    /\ gt_file = ""
    /\ calls = <<>>
    /\ returned = "none"
    /\ exc = ""
    /\ stdout = ""
    /\ truth \in TruthTables
    /\ pred \in PredTables
    /\ merged = <<>>
    /\ metrics = [kind |-> "none", value |-> <<>>]
    /\ jpc = "read"

\* merged = truth.merge(pred, how="left", on="id")
MergeTables ==
    /\ jpc = "read"
    /\ merged' = LeftMerge(truth, pred)
    /\ jpc' = "merged"
    /\ UNCHANGED <<truth, pred, metrics>>
    /\ UNCHANGED mainVars

\* roc = roc_auc_score(...); precision, recall, _ = ...; return {...}
ComputeMetrics ==
    /\ jpc = "merged"
    /\ \E v \in BOOLEAN : metrics' = compute_metrics(merged, v)
    /\ jpc' = "returned"
    /\ UNCHANGED <<truth, pred, merged>>
    /\ UNCHANGED mainVars

NextJoin == MergeTables \/ ComputeMetrics

SpecJoin == InitJoin /\ [][NextJoin]_vars

----------------------------------------------------------------------------
(* Properties *)

\* The run has written the results file.
Written == pc \in {"print", "done"}

\* The run is past the gate on validation_status.
PastGate ==
    \/ pc \in {"score", "write", "print", "done"}
    \/ pc = "crashed" /\ exc \notin {"UnicodeDecodeError", "AttributeError"}

\* The document has a validation_status field with value v.
StatusIs(doc, v) ==
    /\ "validation_status" \in DOMAIN doc
    /\ doc["validation_status"] = v

HasStatus(doc) == "validation_status" \in DOMAIN doc

MetricKeys == {"auc_roc", "auprc"}
ScoreKeys == {"score_status", "score_errors"} \cup MetricKeys

BothCalls == <<"extract_gt_file", "score">>

ERR_LIMIT == 500

\* C1 as claimed: scoring is attempted only if validation_status is
\* "VALIDATED" or absent; for every other value the run marks score_status
\* "INVALID" and skips scoring.
C1_ScoresOnlyValidatedOrAbsent ==
    /\ calls # <<>> =>
         (~HasStatus(inFile.doc) \/ StatusIs(inFile.doc, "VALIDATED"))
    /\ (PastGate /\ HasStatus(inFile.doc) /\ ~StatusIs(inFile.doc, "VALIDATED")) =>
         (calls = <<>> /\ status = "INVALID")

\* C1 amended: scoring is skipped exactly when validation_status equals
\* "INVALID": then neither extract_gt_file nor score is called and the
\* score_status written is "INVALID".  For every other value (including ""
\* and "PENDING") and when the field is absent, extract_gt_file is called,
\* and score after it whenever the run gets to write its results.
C1_SkipsScoringIffInvalid ==
    /\ calls # <<>> => ~StatusIs(inFile.doc, "INVALID")
    /\ (PastGate /\ StatusIs(inFile.doc, "INVALID")) =>
         (calls = <<>> /\ status = "INVALID")
    /\ (Written /\ StatusIs(inFile.doc, "INVALID")) =>
         outFile.doc["score_status"] = "INVALID"
    /\ (PastGate /\ ~StatusIs(inFile.doc, "INVALID")) =>
         (calls # <<>> /\ Head(calls) = "extract_gt_file")
    /\ (pc \in {"write", "print", "done"} /\ ~StatusIs(inFile.doc, "INVALID")) =>
         calls = BothCalls

C1_Witness ==
    /\ pc = "done"
    /\ StatusIs(inFile.doc, "PENDING")
    /\ calls = BothCalls
    /\ outFile.doc["score_status"] = "SCORED"

\* The entries of the folder left after removing the manifest.
NonManifest(entries) == { n \in entries : n # MANIFEST }

\* The entries of the folder that the pattern "*" matches, manifest removed.
Candidates(entries) ==
    { n \in entries : SubSeq(n, 1, 1) # "." /\ n # MANIFEST }

\* extract_gt_file has been called and has returned a path.
ExtractReturned == calls # <<>> /\ gt_file # ""

\* extract_gt_file has been called and has raised ValueError.
ExtractRaised ==
    /\ calls = <<"extract_gt_file">>
    /\ gt_file = ""
    /\ pc = "crashed"
    /\ exc = "ValueError"

\* C2 as claimed: extract_gt_file returns a path iff exactly one entry of
\* the folder remains after removing the manifest, the path is that entry,
\* otherwise it raises ValueError; the manifest is never returned.
C2_ReturnsTheOnlyNonManifestEntry ==
    calls # <<>> =>
      /\ ExtractReturned <=> Cardinality(NonManifest(gtFolder)) = 1
      /\ ExtractReturned =>
           \E n \in NonManifest(gtFolder) : gt_file = GT_FOLDER \o "/" \o n
      /\ ~ExtractReturned => ExtractRaised
      /\ gt_file # GT_FOLDER \o "/" \o MANIFEST

\* C2 amended: extract_gt_file returns a path iff exactly one of the paths
\* that glob(folder/"*") matches remains after removing the manifest; the
\* pattern does not match an entry whose name starts with a dot, so such an
\* entry is neither counted nor returned.  The path returned is that one
\* entry, otherwise ValueError is raised; the manifest is never returned.
C2_ReturnsTheOnlyCandidate ==
    calls # <<>> =>
      /\ ExtractReturned <=> Cardinality(Candidates(gtFolder)) = 1
      /\ ExtractReturned =>
           \E n \in Candidates(gtFolder) : gt_file = GT_FOLDER \o "/" \o n
      /\ ~ExtractReturned => ExtractRaised
      /\ gt_file # GT_FOLDER \o "/" \o MANIFEST

C2_Witness ==
    /\ gtFolder = {"truth.csv", MANIFEST, ".DS_Store"}
    /\ calls # <<>>
    /\ gt_file = "groundtruth/truth.csv"

\* C3: when main writes the results document, every key of the document it
\* started from, other than score_status, score_errors and the metric keys,
\* is written back with its value unchanged.
C3_OtherKeysPreserved ==
    Written =>
      \A k \in DOMAIN readDoc \ ScoreKeys :
        /\ k \in DOMAIN outFile.doc
        /\ outFile.doc[k] = readDoc[k]

C3_Witness ==
    /\ pc = "done"
    /\ inFile.kind = "object"
    /\ StatusIs(readDoc, "VALIDATED")
    /\ "submission_id" \in DOMAIN readDoc
    /\ "auc_roc" \in DOMAIN readDoc
    /\ status = "SCORED"
    /\ outFile.doc["validation_status"] = "VALIDATED"
    /\ outFile.doc["submission_id"] = "9700001"

\* C4: the score_errors main writes is under 500 characters long, and a
\* message of 500 characters or more is written truncated, ending in "...".
C4_ErrorsUnderLimit ==
    Written =>
      /\ Len(outFile.doc["score_errors"]) < ERR_LIMIT
      /\ Len(errors) >= ERR_LIMIT =>
           EndsWith(outFile.doc["score_errors"], "...")

\* C5: for a results file that is missing, is not JSON or holds a JSON
\* object, and whatever the groundtruth folder, the task and the CSV files,
\* main does not end in an exception, and when it ends it has written
\* score_status to the results file and printed it.
C5_EndsByWritingStatus ==
    inFile.kind \in {"missing", "badjson", "object"} =>
      /\ pc # "crashed"
      /\ pc = "done" =>
           /\ outFile.kind = "object"
           /\ "score_status" \in DOMAIN outFile.doc
           /\ stdout = outFile.doc["score_status"]

\* Number of rows of pred with the given id.
NumPred(id) == Cardinality({ j \in 1..Len(pred) : pred[j].id = id })

\* Number of joined rows that row k of truth accounts for.
RowsOf(k) == IF NumPred(truth[k].id) = 0 THEN 1 ELSE NumPred(truth[k].id)

\* Position in the joined table of the first row for row k of truth.
RECURSIVE FirstRowOf(_)
FirstRowOf(k) == IF k = 1 THEN 1 ELSE FirstRowOf(k - 1) + RowsOf(k - 1)

\* C6: the joined table holds every groundtruth row, in groundtruth order;
\* each joined row pairs the label of a groundtruth row with a probability
\* that pred gives for the same id, or with the missing value when pred has
\* no row with that id; an id of pred that is not in truth is in no joined
\* row; with unique prediction ids there is one joined row per groundtruth
\* row.
C6_LeftJoinOnId ==
    jpc # "read" =>
      /\ Len(merged) = FirstRowOf(Len(truth) + 1) - 1
      /\ \A k \in 1..Len(truth) :
           /\ FirstRowOf(k) <= Len(merged)
           /\ merged[FirstRowOf(k)].id = truth[k].id
           /\ merged[FirstRowOf(k)].disease = truth[k].disease
      /\ \A i \in 1..Len(merged) :
           /\ \E k \in 1..Len(truth) :
                /\ merged[i].id = truth[k].id
                /\ merged[i].disease = truth[k].disease
           /\ IF NumPred(merged[i].id) = 0
              THEN merged[i].probability = MISSING
              ELSE \E j \in 1..Len(pred) :
                     /\ pred[j].id = merged[i].id
                     /\ pred[j].probability = merged[i].probability
      /\ \A j \in 1..Len(pred) :
           (\A k \in 1..Len(truth) : truth[k].id # pred[j].id) =>
             (\A i \in 1..Len(merged) : merged[i].id # pred[j].id)
      /\ (\A a, b \in 1..Len(pred) : pred[a].id = pred[b].id => a = b) =>
           /\ Len(merged) = Len(truth)
           /\ \A k \in 1..Len(truth) :
                /\ merged[k].id = truth[k].id
                /\ merged[k].disease = truth[k].disease

C6_Witness ==
    /\ jpc = "merged"
    /\ truth = << [id |-> "A_02", disease |-> 1],
                  [id |-> "A_01", disease |-> 0] >>
    /\ pred = << [id |-> "B_09", probability |-> 2],
                 [id |-> "A_01", probability |-> 7] >>
    /\ merged = << [id |-> "A_02", disease |-> 1, probability |-> MISSING],
                   [id |-> "A_01", disease |-> 0, probability |-> 7] >>

\* C7: when the document read has validation_status "INVALID", main calls
\* neither extract_gt_file nor score, writes score_status "INVALID" with the
\* validation-errors message, adds no metric value, prints "INVALID" and
\* does not end in an exception, whatever the groundtruth folder holds.
C7_InvalidSubmissionNotScored ==
    StatusIs(readDoc, "INVALID") =>
      /\ calls = <<>>
      /\ pc # "crashed"
      /\ Written =>
           /\ outFile.doc["score_status"] = "INVALID"
           /\ outFile.doc["score_errors"] =
                "Submission could not be evaluated due to validation errors."
           /\ \A k \in MetricKeys :
                /\ k \in DOMAIN outFile.doc <=> k \in DOMAIN readDoc
                /\ k \in DOMAIN readDoc => outFile.doc[k] = readDoc[k]
      /\ pc = "done" => stdout = "INVALID"

C7_Witness ==
    /\ pc = "done"
    /\ StatusIs(readDoc, "INVALID")
    /\ Cardinality(Candidates(gtFolder)) # 1
    /\ stdout = "INVALID"
    /\ outFile.doc["score_status"] = "INVALID"

\* C8: when the results file does not exist or does not hold parseable
\* JSON, main does not fail and does not skip scoring: it starts from the
\* document with validation_status "" and the not-found notice, calls
\* extract_gt_file and score, and the document it writes holds that
\* validation_status and notice together with score_status and score_errors.
C8_MissingResultsStillScored ==
    inFile.kind \in {"missing", "badjson", "undecodable"} =>
      /\ pc # "crashed"
      /\ pc # "start" =>
           /\ StatusIs(readDoc, "")
           /\ readDoc["validation_errors"] = NOT_FOUND_NOTICE
      /\ pc \in {"write", "print", "done"} => calls = BothCalls
      /\ Written =>
           /\ StatusIs(outFile.doc, "")
           /\ outFile.doc["validation_errors"] = NOT_FOUND_NOTICE
           /\ {"score_status", "score_errors"} \subseteq DOMAIN outFile.doc

\* C9: in every results document main writes, score_status is "SCORED" or
\* "INVALID"; it is "SCORED" exactly when score_errors is empty, which is
\* exactly when score() returned metrics in this run; a ValueError or a
\* LookupError (any task other than "task1") gives "INVALID" with a
\* non-empty score_errors and no metric of this run; the status printed is
\* the score_status written.
C9_StatusMatchesOutcome ==
    Written =>
      LET d == outFile.doc
      IN  /\ d["score_status"] \in {"SCORED", "INVALID"}
          /\ d["score_status"] = "SCORED" <=> d["score_errors"] = ""
          /\ d["score_status"] = "SCORED" <=> returned = "ok"
          /\ returned = "ok" =>
               /\ DOMAIN scores = MetricKeys
               /\ \A k \in MetricKeys : d[k] = scores[k]
          /\ returned \in {"ValueError", "LookupError"} =>
               /\ d["score_status"] = "INVALID"
               /\ d["score_errors"] # ""
          /\ returned # "ok" =>
               /\ scores = EmptyDoc
               /\ \A k \in MetricKeys :
                    /\ k \in DOMAIN d <=> k \in DOMAIN readDoc
                    /\ k \in DOMAIN readDoc => d[k] = readDoc[k]
          /\ (calls = BothCalls /\ task # "task1") =>
               (returned = "LookupError" /\ d["score_status"] = "INVALID")
          /\ pc = "done" => stdout = d["score_status"]

C9_Witness ==
    /\ pc = "done"
    /\ task = "task2"
    /\ returned = "LookupError"
    /\ outFile.doc["score_status"] = "INVALID"
    /\ outFile.doc["score_errors"] # ""
    /\ stdout = "INVALID"

====
